---------------------------- MODULE Spec2Model ----------------------------
(***************************************************************************)
(* Model of clusters/pdf-tools/pdf_to_typst_global_grid.py: the 1-D        *)
(* chaining clusterer, the cluster lookup, the underline matcher, the cell *)
(* formatter, the page driver generate_typst_from_pdf and main; and of the *)
(* numbered-list counters of clusters/conversion/typst_lite2docx.py.       *)
(*                                                                         *)
(* Specifications.  Spec runs the driver over documents of a page of       *)
(* interest among filler pages; SpecProgress runs it to its end over every *)
(* sequence of a few pages; SpecMain adds main and a page reader that can  *)
(* raise; SpecCluster, SpecAssign, SpecMark and SpecFormat call            *)
(* cluster_positions and assign_to_cluster, assign_to_cluster alone,       *)
(* mark_underlines, escape_typst and format_span on their own; SpecEnum    *)
(* runs TypstLiteGenerator.process_file line by line.                      *)
(*                                                                         *)
(* Numbers.  Coordinates are Python floats; the model computes with exact  *)
(* rationals <<n, d>> (d > 0, lowest terms), so that a cluster mean such   *)
(* as 11.5 is the value <<23, 2>>.                                         *)
(*                                                                         *)
(* Strings.  A Python str is a sequence of one-character strings.  The     *)
(* three bullet glyphs are written "U+2022", "U+25CF" and "U+25E6" and the *)
(* grave accent "U+0060"; each stands for one character.                   *)
(***************************************************************************)
EXTENDS Integers, Sequences, FiniteSets, TLC

VARIABLES
    \* ---- the clustering harness (SpecCluster) ----
    positions,      \* argument of cluster_positions: a list of numbers
    tolerance,      \* argument of cluster_positions / assign_to_cluster
    clusters,       \* value returned by cluster_positions
    value,          \* argument of assign_to_cluster
    idx,            \* value returned by assign_to_cluster
    round,          \* 0: clustering the input, 1: clustering the centers again
    cpc,            \* position of the harness
    \* ---- generate_typst_from_pdf (Spec) ----
    doc,            \* the opened document: a list of pages
    typst_lines,    \* the list of output lines
    page_idx,       \* index of the page of the current loop iteration
    spans,          \* local "spans"
    underlines,     \* local "underlines"
    x_clusters,     \* local "x_clusters"
    y_clusters,     \* local "y_clusters"
    grid,           \* local "grid": rows of cells of spans
    row_idx,        \* index of the next row of the serializing loop
    output_file,    \* content written to output_path, NotWritten before
    pc,             \* position in generate_typst_from_pdf and main
    span_i,         \* mark_underlines: index of "span" in "for span in spans"
    ul_j,           \* mark_underlines: index of "ul" in "for ul in underlines"
    exit_status,    \* status the process ended with, Running before
    \* ---- the formatting harness (SpecFormat) ----
    arg_span,       \* argument of format_span; its text that of escape_typst
    ret_escape,     \* value returned by escape_typst
    ret_format,     \* value returned by format_span
    fpc,            \* position of the harness
    \* ---- TypstLiteGenerator (SpecEnum) ----
    enum_counters,  \* self.enum_counters: level -> counter
    current_number, \* add_enum_item: local "current_number" of the last call
    paragraphs,     \* the paragraphs added to self.doc, in order
    line_idx        \* process_file: number of lines processed

cvars == <<positions, tolerance, clusters, value, idx, round, cpc>>

dvars == <<doc, typst_lines, page_idx, spans, underlines, x_clusters,
           y_clusters, grid, row_idx, output_file, pc, span_i, ul_j, exit_status>>

fvars == <<arg_span, ret_escape, ret_format, fpc>>

\* the locals of mark_underlines
mvars == <<span_i, ul_j>>

evars == <<enum_counters, current_number, paragraphs, line_idx>>

vars == <<cvars, dvars, fvars, evars>>

----------------------------------------------------------------------------
(* Bounds of the model                                                      *)

\* coordinates of the clustering harness are the integers 0..MaxCoord
MaxCoord == 10
\* at most this many distinct coordinates in one input of the harness
MaxDistinct == 5
\* at most this many pages in a document
MaxPages == 2
\* at most this many spans on a generated page or in a harness call
MaxSpans == 2
\* at most this many underlines in a call of mark_underlines
MaxUnderlines == 2
\* at most this many characters in a generated text of the formatting harness
MaxLen == 2

(* Program constants                                                        *)

\* tolerance=5 passed for the x positions (columns)
XTolerance == 5
\* tolerance=3 passed for the y positions (rows)
YTolerance == 3

----------------------------------------------------------------------------
(* Exact rational arithmetic standing for Python's float arithmetic         *)

Abs(n) == IF n < 0 THEN -n ELSE n

RECURSIVE Gcd(_, _)
Gcd(a, b) == IF b = 0 THEN a ELSE Gcd(b, a % b)

\* the rational n/d in lowest terms, d > 0
Rat(n, d) ==
    LET g == Gcd(Abs(n), d)
    IN  IF n = 0 THEN <<0, 1>> ELSE <<n \div g, d \div g>>

R(n) == <<n, 1>>

RAdd(a, b) == Rat(a[1] * b[2] + b[1] * a[2], a[2] * b[2])
RSub(a, b) == Rat(a[1] * b[2] - b[1] * a[2], a[2] * b[2])
RDivInt(a, k) == Rat(a[1], a[2] * k)
RAbs(a) == <<Abs(a[1]), a[2]>>
RLeq(a, b) == a[1] * b[2] <= b[1] * a[2]
RLess(a, b) == a[1] * b[2] < b[1] * a[2]

Range(s) == {s[i] : i \in 1..Len(s)}

RECURSIVE RSum(_)
RSum(s) == IF s = <<>> THEN R(0) ELSE RAdd(Head(s), RSum(Tail(s)))

\* sum(cluster) / len(cluster)
Mean(cluster) == RDivInt(RSum(cluster), Len(cluster))

\* sorted(set(positions)): the distinct values in ascending order
RECURSIVE SortedSet(_)
SortedSet(S) ==
    IF S = {} THEN <<>>
    ELSE LET m == CHOOSE x \in S : \A y \in S : RLeq(x, y)
         IN  <<m>> \o SortedSet(S \ {m})

----------------------------------------------------------------------------
(* cluster_positions                                                        *)

\* ChainLoop comparing with the first member of the current cluster
RECURSIVE ChainLoopFirst(_, _, _)
ChainLoopFirst(rest, cl, tol) ==
    IF rest = <<>> THEN cl
    ELSE LET pos  == Head(rest)
             cur  == cl[Len(cl)]
         IN  IF RLeq(RSub(pos, cur[1]), R(tol))
             THEN ChainLoopFirst(Tail(rest), [cl EXCEPT ![Len(cl)] = Append(cur, pos)], tol)
             ELSE ChainLoopFirst(Tail(rest), Append(cl, <<pos>>), tol)

\* ChainLoop with "<" for "<="
RECURSIVE ChainLoopStrict(_, _, _)
ChainLoopStrict(rest, cl, tol) ==
    IF rest = <<>> THEN cl
    ELSE LET pos  == Head(rest)
             cur  == cl[Len(cl)]
             last == cur[Len(cur)]
         IN  IF RLess(RSub(pos, last), R(tol))
             THEN ChainLoopStrict(Tail(rest), [cl EXCEPT ![Len(cl)] = Append(cur, pos)], tol)
             ELSE ChainLoopStrict(Tail(rest), Append(cl, <<pos>>), tol)

\* the loop "for pos in sorted_pos[1:]": cl is the list of clusters so far
RECURSIVE ChainLoop(_, _, _)
ChainLoop(rest, cl, tol) ==
    IF rest = <<>> THEN cl
    ELSE LET pos  == Head(rest)
             cur  == cl[Len(cl)]
             last == cur[Len(cur)]
         IN  IF RLeq(RSub(pos, last), R(tol))
             THEN ChainLoop(Tail(rest), [cl EXCEPT ![Len(cl)] = Append(cur, pos)], tol)
             ELSE ChainLoop(Tail(rest), Append(cl, <<pos>>), tol)

\* ChainClusters over sorted(positions): the duplicates are kept
ChainClustersWeighted(pos, tol) ==
    IF pos = <<>> THEN <<>>
    ELSE LET RECURSIVE Sorted(_)
             Sorted(I) ==
                 IF I = {} THEN <<>>
                 ELSE LET m == CHOOSE i \in I : \A j \in I : RLeq(pos[i], pos[j])
                      IN  <<pos[m]>> \o Sorted(I \ {m})
             sorted_pos == Sorted(1..Len(pos))
         IN  ChainLoop(Tail(sorted_pos), << <<Head(sorted_pos)>> >>, tol)

\* the list "clusters" of member lists built by cluster_positions
ChainClusters(pos, tol) ==
    IF pos = <<>> THEN <<>>
    ELSE LET sorted_pos == SortedSet(Range(pos))
         IN  ChainLoop(Tail(sorted_pos), << <<Head(sorted_pos)>> >>, tol)

cluster_positions(pos, tol) ==
    LET cl == ChainClusters(pos, tol)
    IN  [i \in 1..Len(cl) |-> Mean(cl[i])]

----------------------------------------------------------------------------
(* assign_to_cluster                                                        *)

\* the centers (0-based indices) the loop's test accepts for v
Matching(v, centers, tol) ==
    {i \in 0..(Len(centers) - 1) : RLeq(RAbs(RSub(v, centers[i + 1])), R(tol))}

Min(S) == CHOOSE m \in S : \A n \in S : m <= n

\* a variant whose fallback is the index after the last center
AssignToClusterFallbackLen(v, centers, tol) ==
    IF Matching(v, centers, tol) # {}
    THEN Min(Matching(v, centers, tol))
    ELSE Len(centers)

\* a variant that keeps looping and returns the last index that matches
AssignToClusterLast(v, centers, tol) ==
    IF Matching(v, centers, tol) # {}
    THEN Min({i \in Matching(v, centers, tol) :
                 \A j \in Matching(v, centers, tol) : j <= i})
    ELSE 0

\* returns a 0-based index, as the Python does
assign_to_cluster(v, centers, tol) ==
    IF Matching(v, centers, tol) # {}
    THEN Min(Matching(v, centers, tol))
    ELSE 0

----------------------------------------------------------------------------
(* Strings                                                                  *)

BULLET       == "U+2022"
BLACK_CIRCLE == "U+25CF"
WHITE_BULLET == "U+25E6"
\* the grave accent, which the lexer does not accept in a string
BACKTICK     == "U+0060"

HEADER_COMMENT == <<"/", "/", " ", "G", "e", "n", "e", "r", "a", "t", "e", "d", " ", "f", "r", "o", "m", " ", "P", "D", "F", " ", "u", "s", "i", "n", "g", " ", "g", "l", "o", "b", "a", "l", " ", "g", "r", "i", "d", " ", "a", "p", "p", "r", "o", "a", "c", "h">>
SET_PAGE == <<"#", "s", "e", "t", " ", "p", "a", "g", "e", "(", "p", "a", "p", "e", "r", ":", " ", "\"", "a", "4", "\"", ",", " ", "m", "a", "r", "g", "i", "n", ":", " ", "(", "x", ":", " ", "2", "c", "m", ",", " ", "y", ":", " ", "2", "c", "m", ")", ")">>
SET_TEXT_OPEN == <<"#", "s", "e", "t", " ", "t", "e", "x", "t", "(", "f", "o", "n", "t", ":", " ", "\"">>
SET_TEXT_CLOSE == <<"\"", ",", " ", "s", "i", "z", "e", ":", " ", "1", "1", "p", "t", ")">>
SET_PAR == <<"#", "s", "e", "t", " ", "p", "a", "r", "(", "l", "e", "a", "d", "i", "n", "g", ":", " ", "0", ".", "6", "5", "e", "m", ")">>
PAGEBREAK == <<"#", "p", "a", "g", "e", "b", "r", "e", "a", "k", "(", ")">>
GRID_OPEN == <<"#", "g", "r", "i", "d", "(">>
COLUMNS_OPEN == <<" ", " ", "c", "o", "l", "u", "m", "n", "s", ":", " ">>
GUTTER == <<" ", " ", "g", "u", "t", "t", "e", "r", ":", " ", "1", "e", "m", ",">>
CELL_OPEN == <<" ", " ", "[">>
CELL_CLOSE == <<"]", ",">>
EMPTY_CELL == <<" ", " ", "[", "]", ",">>
GRID_CLOSE == <<")">>
LIST_MARKER == <<"-", " ">>
UNDERLINE_STRONG_OPEN == <<"#", "u", "n", "d", "e", "r", "l", "i", "n", "e", "[", "#", "s", "t", "r", "o", "n", "g", "[">>
STRONG_OPEN == <<"#", "s", "t", "r", "o", "n", "g", "[">>
EMPH_OPEN == <<"#", "e", "m", "p", "h", "[">>
UNDERLINE_OPEN == <<"#", "u", "n", "d", "e", "r", "l", "i", "n", "e", "[">>
\* os.environ.get("TYPST_FONT", "Calibri") with TYPST_FONT unset
DEFAULT_FONT == <<"C", "a", "l", "i", "b", "r", "i">>

\* str.isspace() of one character
IsSpace(c) == c \in {" ", "\t", "\n", "\r", "\f"}

\* str.isspace(): non-empty and nothing but whitespace
IsSpaceStr(t) == t # <<>> /\ \A i \in 1..Len(t) : IsSpace(t[i])

RECURSIVE LStrip(_)
LStrip(t) == IF t # <<>> /\ IsSpace(Head(t)) THEN LStrip(Tail(t)) ELSE t

RECURSIVE RStrip(_)
RStrip(t) ==
    IF t # <<>> /\ IsSpace(t[Len(t)]) THEN RStrip(SubSeq(t, 1, Len(t) - 1)) ELSE t

\* str.strip()
Strip(t) == RStrip(LStrip(t))

\* str.startswith(c) for a one-character c
StartsWith(t, c) == t # <<>> /\ t[1] = c

\* ''.join(parts)
RECURSIVE Concat(_)
Concat(parts) == IF parts = <<>> THEN <<>> ELSE Head(parts) \o Concat(Tail(parts))

\* sep.join(parts) for a one-character sep
RECURSIVE Join(_, _)
Join(parts, sep) ==
    IF parts = <<>> THEN <<>>
    ELSE IF Len(parts) = 1 THEN parts[1]
    ELSE parts[1] \o <<sep>> \o Join(Tail(parts), sep)

\* text.replace(c, '\\' + c) for a one-character c
RECURSIVE Replace(_, _)
Replace(t, c) ==
    IF t = <<>> THEN <<>>
    ELSE (IF Head(t) = c THEN <<"\\", c>> ELSE <<Head(t)>>) \o Replace(Tail(t), c)

\* str(n) for n >= 0
RECURSIVE IntToStr(_)
IntToStr(n) ==
    LET digit == <<"0", "1", "2", "3", "4", "5", "6", "7", "8", "9">>[(n % 10) + 1]
    IN  IF n < 10 THEN <<digit>> ELSE Append(IntToStr(n \div 10), digit)

\* escape_typst with the backslash replaced last
EscapeBackslashLast(text) ==
    IF text = <<>> THEN <<>>
    ELSE LET t2  == Replace(text, "#")
             t3  == Replace(t2, "*")
             t4  == Replace(t3, "_")
             t5  == Replace(t4, "[")
             t6  == Replace(t5, "]")
             t7  == Replace(t6, "<")
             t8  == Replace(t7, ">")
             t9  == Replace(t8, BACKTICK)
             t10 == Replace(t9, "$")
             t11 == Replace(t10, "@")
         IN  Replace(t11, "\\")

escape_typst(text) ==
    IF text = <<>> THEN <<>>
    ELSE LET t1  == Replace(text, "\\")
             t2  == Replace(t1, "#")
             t3  == Replace(t2, "*")
             t4  == Replace(t3, "_")
             t5  == Replace(t4, "[")
             t6  == Replace(t5, "]")
             t7  == Replace(t6, "<")
             t8  == Replace(t7, ">")
             t9  == Replace(t8, BACKTICK)
             t10 == Replace(t9, "$")
         IN  Replace(t10, "@")

\* format_span nesting the emphasis of an italic span inside the other wraps
FormatSpanNested(span) ==
    LET text  == escape_typst(span.text)
        inner == IF span.is_italic THEN EMPH_OPEN \o text \o <<"]">> ELSE text
    IN  IF span.is_bold /\ span.is_underlined
        THEN UNDERLINE_STRONG_OPEN \o inner \o <<"]", "]">>
        ELSE IF span.is_bold THEN STRONG_OPEN \o inner \o <<"]">>
        ELSE IF span.is_underlined THEN UNDERLINE_OPEN \o inner \o <<"]">>
        ELSE inner

\* format_span testing is_underlined before is_bold
FormatSpanUnderlineFirst(span) ==
    LET text == escape_typst(span.text)
    IN  IF span.is_underlined THEN UNDERLINE_OPEN \o text \o <<"]">>
        ELSE IF span.is_bold THEN STRONG_OPEN \o text \o <<"]">>
        ELSE IF span.is_italic THEN EMPH_OPEN \o text \o <<"]">>
        ELSE text

format_span(span) ==
    LET text == escape_typst(span.text)
    IN  IF span.is_bold /\ span.is_underlined
        THEN UNDERLINE_STRONG_OPEN \o text \o <<"]", "]">>
        ELSE IF span.is_bold THEN STRONG_OPEN \o text \o <<"]">>
        ELSE IF span.is_italic THEN EMPH_OPEN \o text \o <<"]">>
        ELSE IF span.is_underlined THEN UNDERLINE_OPEN \o text \o <<"]">>
        ELSE text

----------------------------------------------------------------------------
(* The page reader.  A page is [blocks, drawings]; a block is [type, spans]  *)
(* (the spans of its lines in order; an image block, type 1, has none); a    *)
(* span_data is [text, bbox, flags]; a drawing is [type, rect].              *)

\* whether bit b of flags is set: (flags & 2**b) > 0
Bit(flags, b) == (flags \div (2 ^ b)) % 2 = 1

\* Span(text=..., x=bbox[0], ...)
Span(span_data) ==
    [text |-> span_data.text,
     x |-> span_data.bbox[1],
     y |-> span_data.bbox[2],
     width |-> span_data.bbox[3] - span_data.bbox[1],
     height |-> span_data.bbox[4] - span_data.bbox[2],
     is_bold |-> Bit(span_data.flags, 4),
     is_italic |-> Bit(span_data.flags, 1),
     is_underlined |-> FALSE]

\* the spans of one block that are kept
RECURSIVE BlockSpans(_)
BlockSpans(sd) ==
    IF sd = <<>> THEN <<>>
    ELSE IF Head(sd).text = <<>> \/ IsSpaceStr(Head(sd).text)
         THEN BlockSpans(Tail(sd))
         ELSE <<Span(Head(sd))>> \o BlockSpans(Tail(sd))

RECURSIVE BlocksSpans(_)
BlocksSpans(blocks) ==
    IF blocks = <<>> THEN <<>>
    ELSE (IF Head(blocks).type # 0 THEN <<>> ELSE BlockSpans(Head(blocks).spans))
         \o BlocksSpans(Tail(blocks))

extract_all_spans(page) == BlocksSpans(page.blocks)

RECURSIVE DrawingsUnderlines(_)
DrawingsUnderlines(drawings) ==
    IF drawings = <<>> THEN <<>>
    ELSE LET rect == Head(drawings).rect
         IN  (IF Head(drawings).type = "f" /\ rect[4] - rect[2] < 5
              THEN << [y |-> Rat(rect[2] + rect[4], 2), x0 |-> rect[1], x1 |-> rect[3]] >>
              ELSE <<>>)
             \o DrawingsUnderlines(Tail(drawings))

extract_underlines(page) == DrawingsUnderlines(page.drawings)

\* UnderlineMatches with "< 5" for "<= 5"
UnderlineMatchesStrict(span, ul) ==
    /\ RLess(RAbs(RSub(ul.y, R(span.y + span.height))), R(5))
    /\ ~(ul.x1 < span.x \/ ul.x0 > span.x + span.width)

\* the test of mark_underlines for one span and one underline
UnderlineMatches(span, ul) ==
    /\ RLeq(RAbs(RSub(ul.y, R(span.y + span.height))), R(5))
    /\ ~(ul.x1 < span.x \/ ul.x0 > span.x + span.width)

\* the spans after mark_underlines(spans, underlines)
mark_underlines(sp, uls) ==
    [i \in 1..Len(sp) |->
        IF \E j \in 1..Len(uls) : UnderlineMatches(sp[i], uls[j])
        THEN [sp[i] EXCEPT !.is_underlined = TRUE]
        ELSE sp[i]]

----------------------------------------------------------------------------
(* The grid                                                                 *)

\* [[[] for _ in x_clusters] for _ in y_clusters]
EmptyGrid(yc, xc) == [r \in 1..Len(yc) |-> [c \in 1..Len(xc) |-> <<>>]]

\* AssignSpans with "grid[row_idx][col_idx] = [span]": a cell keeps its last span
RECURSIVE AssignSpansOverwrite(_, _, _, _)
AssignSpansOverwrite(rest, g, yc, xc) ==
    IF rest = <<>> THEN g
    ELSE LET span    == Head(rest)
             row     == assign_to_cluster(R(span.y), yc, YTolerance)
             col     == assign_to_cluster(R(span.x), xc, XTolerance)
         IN  AssignSpansOverwrite(Tail(rest),
                                  [g EXCEPT ![row + 1][col + 1] = <<span>>],
                                  yc, xc)

\* the loop "for span in spans" appending every span to its cell
RECURSIVE AssignSpans(_, _, _, _)
AssignSpans(rest, g, yc, xc) ==
    IF rest = <<>> THEN g
    ELSE LET span    == Head(rest)
             row     == assign_to_cluster(R(span.y), yc, YTolerance)
             col     == assign_to_cluster(R(span.x), xc, XTolerance)
         IN  AssignSpans(Tail(rest),
                         [g EXCEPT ![row + 1][col + 1] = Append(@, span)],
                         yc, xc)

\* InsertByX putting s in front of the elements of equal x
RECURSIVE InsertByXUnstable(_, _)
InsertByXUnstable(sorted, s) ==
    IF sorted = <<>> THEN <<s>>
    ELSE IF sorted[Len(sorted)].x < s.x THEN Append(sorted, s)
    ELSE Append(InsertByXUnstable(SubSeq(sorted, 1, Len(sorted) - 1), s),
                sorted[Len(sorted)])

\* list.sort(key=lambda s: s.x), a stable sort: s goes behind every element
\* whose x is not greater
RECURSIVE InsertByX(_, _)
InsertByX(sorted, s) ==
    IF sorted = <<>> THEN <<s>>
    ELSE IF sorted[Len(sorted)].x <= s.x THEN Append(sorted, s)
    ELSE Append(InsertByX(SubSeq(sorted, 1, Len(sorted) - 1), s), sorted[Len(sorted)])

RECURSIVE SortByX(_)
SortByX(cell) ==
    IF cell = <<>> THEN <<>>
    ELSE InsertByX(SortByX(SubSeq(cell, 1, Len(cell) - 1)), cell[Len(cell)])

SortCells(g) == [r \in 1..Len(g) |-> [c \in 1..Len(g[r]) |-> SortByX(g[r][c])]]

----------------------------------------------------------------------------
(* Cells and rows                                                           *)

BulletGlyphs == {<<BULLET>>, <<BLACK_CIRCLE>>, <<WHITE_BULLET>>}

\* CellContent keeping the first span of a bullet cell
CellContentKeepAll(cell) ==
    LET text == Concat([i \in 1..Len(cell) |-> cell[i].text])
    IN  IF StartsWith(Strip(text), BULLET)
        THEN LIST_MARKER \o Concat([i \in 1..Len(cell) |-> format_span(cell[i])])
        ELSE Concat([i \in 1..Len(cell) |-> format_span(cell[i])])

\* the "content" of a non-empty cell
CellContent(cell) ==
    LET text == Concat([i \in 1..Len(cell) |-> cell[i].text])
        keep == SelectSeq([i \in 1..Len(cell) |-> <<i, cell[i]>>],
                          LAMBDA p : ~(p[1] = 1 /\ Strip(p[2].text) \in BulletGlyphs))
    IN  IF StartsWith(Strip(text), BULLET)
        THEN LIST_MARKER \o Concat([i \in 1..Len(keep) |-> format_span(keep[i][2])])
        ELSE Concat([i \in 1..Len(cell) |-> format_span(cell[i])])

\* the line appended for one cell of an emitted row
CellLine(cell) ==
    IF cell # <<>> THEN CELL_OPEN \o CellContent(cell) \o CELL_CLOSE
    ELSE EMPTY_CELL

\* RowBlock leaving the empty cells out and counting the filled ones
RowBlockFilled(row, ncols) ==
    LET filled == SelectSeq(row, LAMBDA cell : cell # <<>>)
    IN  <<GRID_OPEN, COLUMNS_OPEN \o IntToStr(Len(filled)) \o <<",">>, GUTTER>>
        \o [c \in 1..Len(filled) |-> CELL_OPEN \o CellContent(filled[c]) \o CELL_CLOSE]
        \o <<GRID_CLOSE>>

\* the lines appended for one row with content
RowBlock(row, ncols) ==
    <<GRID_OPEN, COLUMNS_OPEN \o IntToStr(ncols) \o <<",">>, GUTTER>>
    \o [c \in 1..Len(row) |-> CellLine(row[c])]
    \o <<GRID_CLOSE>>

\* filled_cols
FilledCols(row) == Cardinality({c \in 1..Len(row) : row[c] # <<>>})

\* RowLines with "filled_cols <= 1": a row with one filled cell is left out
RowLinesSkipSingle(row, ncols) ==
    IF FilledCols(row) <= 1 THEN <<>> ELSE RowBlock(row, ncols)

\* the lines one iteration of the row loop appends
RowLines(row, ncols) == IF FilledCols(row) = 0 THEN <<>> ELSE RowBlock(row, ncols)

\* PageBreakLines with the marker before the first page too
PageBreakLinesAlways(i) == <<PAGEBREAK, <<>>>>

\* PageBreakLines with the header directives at the top of every page
PageBreakLinesWithHeader(i) ==
    (IF i > 0 THEN <<PAGEBREAK, <<>>>> ELSE <<>>)
    \o <<SET_PAGE, SET_TEXT_OPEN \o DEFAULT_FONT \o SET_TEXT_CLOSE, SET_PAR>>

\* PageBreakLines with "page_idx > 1"
PageBreakLinesLate(i) == IF i > 1 THEN <<PAGEBREAK, <<>>>> ELSE <<>>

\* the lines appended at the top of the page loop
PageBreakLines(i) == IF i > 0 THEN <<PAGEBREAK, <<>>>> ELSE <<>>

\* the header
HeaderLines ==
    <<HEADER_COMMENT, <<>>, SET_PAGE,
      SET_TEXT_OPEN \o DEFAULT_FONT \o SET_TEXT_CLOSE, SET_PAR, <<>>>>

----------------------------------------------------------------------------
(* Documents                                                                *)

SpanData(t, x, y, f) == [text |-> t, bbox |-> <<x, y, x + 3, y + 10>>, flags |-> f]

\* a page of one text block and no drawings
TextPage(sd) == [blocks |-> << [type |-> 0, spans |-> sd] >>, drawings |-> <<>>]

SeqsUpTo(S, n) == UNION {[1..k -> S] : k \in 0..n}

GenSpans ==
    {SpanData(t, x, y, 0) : t \in {<<BULLET>>, <<" ", "I">>},
                            x \in {0, 50}, y \in {0, 20}}

GenPages == {TextPage(sd) : sd \in SeqsUpTo(GenSpans, MaxSpans)}

\* x in {0, 0, 50, 100} spread over y in {0, 20}
ColumnsPage ==
    TextPage(<<SpanData(<<"a">>, 0, 0, 0), SpanData(<<"b">>, 0, 20, 0),
               SpanData(<<"c">>, 50, 0, 0), SpanData(<<"d">>, 100, 20, 0)>>)

\* a cell with the texts [bullet, " Item one"]
ItemOnePage ==
    TextPage(<<SpanData(<<BULLET>>, 0, 0, 0),
               SpanData(<<" ", "I", "t", "e", "m", " ", "o", "n", "e">>, 4, 0, 0)>>)

\* a cell with the texts ["Item", " two"]
ItemTwoPage ==
    TextPage(<<SpanData(<<"I", "t", "e", "m">>, 0, 0, 0),
               SpanData(<<" ", "t", "w", "o">>, 4, 0, 0)>>)

\* a cell that starts with the glyph g followed by a second span
GlyphPage(g) ==
    TextPage(<<SpanData(<<g>>, 0, 0, 0), SpanData(<<" ", "I">>, 4, 0, 0)>>)

\* a bold underlined span, an italic one, and text that needs escaping
StyledPage ==
    [blocks |-> << [type |-> 0,
                    spans |-> <<SpanData(<<"a", "#">>, 0, 0, 16),
                                SpanData(<<"[", "b">>, 50, 0, 2)>>] >>,
     drawings |-> << [type |-> "f", rect |-> <<0, 10, 3, 11>>],
                     [type |-> "s", rect |-> <<50, 10, 53, 11>>] >>]

\* a blank span, which is not kept, between two spans of one cell
MixedPage ==
    TextPage(<<SpanData(<<"b">>, 4, 0, 0), SpanData(<<" ", "\t">>, 2, 0, 0),
               SpanData(<<"a">>, 0, 0, 2)>>)

\* a single span that begins with the bullet glyph and goes on: "(bullet) Item"
BulletItemPage ==
    TextPage(<<SpanData(<<BULLET, " ", "I", "t", "e", "m">>, 0, 0, 0)>>)

ExamplePages ==
    {ColumnsPage, ItemOnePage, ItemTwoPage, StyledPage, MixedPage,
     GlyphPage(BLACK_CIRCLE), GlyphPage(WHITE_BULLET), BulletItemPage}

\* a page without any block
EmptyPage == [blocks |-> <<>>, drawings |-> <<>>]

\* a page with an image block, a blank span and a drawing, but no kept span
BlankPage ==
    [blocks |-> << [type |-> 1, spans |-> <<>>],
                   [type |-> 0, spans |-> <<SpanData(<<" ">>, 0, 0, 0)>>] >>,
     drawings |-> << [type |-> "f", rect |-> <<0, 10, 3, 11>>] >>]

\* a page with one underlined bold span
OneSpanPage ==
    [blocks |-> << [type |-> 0, spans |-> <<SpanData(<<"x">>, 50, 20, 16)>>] >>,
     drawings |-> << [type |-> "f", rect |-> <<50, 30, 53, 31>>] >>]

FillerPages == {EmptyPage, BlankPage, OneSpanPage}

\* one page of interest anywhere among filler pages, or no page at all
Docs ==
    {pre \o <<p>> \o post :
        p \in GenPages \cup ExamplePages,
        pre \in SeqsUpTo(FillerPages, MaxPages - 1),
        post \in SeqsUpTo(FillerPages, MaxPages - 1)}

\* the drawings of the underline pages: under the first span, under both
\* spans, far below, 5 below the second span, and a stroked one
UnderlineDrawings ==
    {[type |-> "f", rect |-> <<0, 10, 3, 11>>],
     [type |-> "f", rect |-> <<0, 10, 60, 11>>],
     [type |-> "f", rect |-> <<0, 30, 3, 31>>],
     [type |-> "f", rect |-> <<50, 14, 53, 16>>],
     [type |-> "s", rect |-> <<0, 10, 60, 11>>]}

\* two spans on one line over a list of drawings
UnderlinePages ==
    {[blocks |-> << [type |-> 0,
                     spans |-> <<SpanData(<<"a">>, 0, 0, 0),
                                 SpanData(<<"b">>, 50, 0, 16)>>] >>,
      drawings |-> dr] : dr \in SeqsUpTo(UnderlineDrawings, MaxUnderlines)}

DocInputs ==
    {d \in Docs : Len(d) <= MaxPages} \cup {<<>>} \cup {<<p>> : p \in UnderlinePages}

----------------------------------------------------------------------------
(* generate_typst_from_pdf                                                  *)

\* no file: a value no written content equals (content starts with the header)
NotWritten == <<"NotWritten">>

HarnessIdle ==
    /\ positions = <<>>
    /\ tolerance = 0
    /\ clusters = <<>>
    /\ value = R(0)
    /\ idx = 0
    /\ round = 0
    /\ cpc = "idle"

\* exit_status while the process runs
Running == "running"

\* the locals of generate_typst_from_pdf before its first statement
Locals ==
    /\ typst_lines = <<>>
    /\ page_idx = 0
    /\ x_clusters = <<>>
    /\ y_clusters = <<>>
    /\ grid = <<>>
    /\ row_idx = 0
    /\ span_i = 0
    /\ ul_j = 0
    /\ output_file = NotWritten
    /\ exit_status = Running

DriverIdle ==
    /\ doc = <<>>
    /\ spans = <<>>
    /\ underlines = <<>>
    /\ Locals
    /\ pc = "idle"

\* a span without text and without style
NoSpan ==
    [text |-> <<>>, x |-> 0, y |-> 0, width |-> 0, height |-> 0,
     is_bold |-> FALSE, is_italic |-> FALSE, is_underlined |-> FALSE]

\* the empty dict
EmptyCounters == [l \in {} |-> 0]

\* TypstLiteGenerator.__init__: no counter, an empty document
EnumIdle ==
    /\ enum_counters = EmptyCounters
    /\ current_number = 0
    /\ paragraphs = <<>>
    /\ line_idx = 0

FormatIdle ==
    /\ arg_span = NoSpan
    /\ ret_escape = <<>>
    /\ ret_format = <<>>
    /\ fpc = "idle"

Init ==
    /\ doc \in DocInputs
    /\ spans = <<>>
    /\ underlines = <<>>
    /\ Locals
    /\ pc = "start"
    /\ HarnessIdle
    /\ FormatIdle
    /\ EnumIdle

\* the page of the current iteration
page == doc[page_idx + 1]

\* doc = fitz.open(pdf_path) and the header
Open ==
    /\ pc = "start"
    /\ typst_lines' = typst_lines \o HeaderLines
    /\ pc' = "loop"
    /\ UNCHANGED <<doc, page_idx, spans, underlines, x_clusters, y_clusters,
                   grid, row_idx, output_file,
                   mvars, exit_status, cvars, fvars, evars>>

\* top of an iteration of "for page_idx, page in enumerate(doc)"
PageBreak ==
    /\ pc = "loop"
    /\ page_idx < Len(doc)
    /\ typst_lines' = typst_lines \o PageBreakLines(page_idx)
    /\ pc' = "spans"
    /\ UNCHANGED <<doc, page_idx, spans, underlines, x_clusters, y_clusters,
                   grid, row_idx, output_file,
                   mvars, exit_status, cvars, fvars, evars>>

\* spans = extract_all_spans(page)
ExtractSpans ==
    /\ pc = "spans"
    /\ spans' = extract_all_spans(page)
    /\ pc' = "underlines"
    /\ UNCHANGED <<doc, typst_lines, page_idx, underlines, x_clusters, y_clusters,
                   grid, row_idx, output_file,
                   mvars, exit_status, cvars, fvars, evars>>

\* underlines = extract_underlines(page); mark_underlines is entered
ExtractUnderlines ==
    /\ pc = "underlines"
    /\ underlines' = extract_underlines(page)
    /\ span_i' = 0
    /\ ul_j' = 0
    /\ pc' = "mark"
    /\ UNCHANGED <<doc, typst_lines, page_idx, spans, x_clusters, y_clusters,
                   grid, row_idx, output_file,
                   exit_status, cvars, fvars, evars>>

\* the span and the underline the loops of mark_underlines are at
CurSpan == spans[span_i + 1]
CurUl == underlines[ul_j + 1]

\* MarkHit without the "break": the loop goes on to the next underline
MarkHitNoBreak ==
    /\ pc = "mark"
    /\ span_i < Len(spans)
    /\ ul_j < Len(underlines)
    /\ UnderlineMatches(CurSpan, CurUl)
    /\ spans' = [spans EXCEPT ![span_i + 1].is_underlined = TRUE]
    /\ ul_j' = ul_j + 1
    /\ UNCHANGED <<doc, typst_lines, page_idx, underlines, x_clusters, y_clusters,
                   grid, row_idx, output_file, pc, span_i,
                   exit_status, cvars, fvars, evars>>

\* the underline matches: "span.is_underlined = True" and "break"
MarkHit ==
    /\ pc = "mark"
    /\ span_i < Len(spans)
    /\ ul_j < Len(underlines)
    /\ UnderlineMatches(CurSpan, CurUl)
    /\ spans' = [spans EXCEPT ![span_i + 1].is_underlined = TRUE]
    /\ span_i' = span_i + 1
    /\ ul_j' = 0
    /\ UNCHANGED <<doc, typst_lines, page_idx, underlines, x_clusters, y_clusters,
                   grid, row_idx, output_file, pc,
                   exit_status, cvars, fvars, evars>>

\* the underline does not match: on to the next underline
MarkMiss ==
    /\ pc = "mark"
    /\ span_i < Len(spans)
    /\ ul_j < Len(underlines)
    /\ ~UnderlineMatches(CurSpan, CurUl)
    /\ ul_j' = ul_j + 1
    /\ UNCHANGED <<doc, typst_lines, page_idx, spans, underlines, x_clusters,
                   y_clusters, grid, row_idx, output_file, pc, span_i,
                   exit_status, cvars, fvars, evars>>

\* "for ul in underlines" is exhausted: on to the next span
MarkNextSpan ==
    /\ pc = "mark"
    /\ span_i < Len(spans)
    /\ ul_j = Len(underlines)
    /\ span_i' = span_i + 1
    /\ ul_j' = 0
    /\ UNCHANGED <<doc, typst_lines, page_idx, spans, underlines, x_clusters,
                   y_clusters, grid, row_idx, output_file, pc,
                   exit_status, cvars, fvars, evars>>

\* "for span in spans" is exhausted: mark_underlines returns
MarkReturn ==
    /\ pc = "mark"
    /\ span_i = Len(spans)
    /\ pc' = "check"
    /\ UNCHANGED <<doc, typst_lines, page_idx, spans, underlines, x_clusters,
                   y_clusters, grid, row_idx, output_file,
                   mvars, exit_status, cvars, fvars, evars>>

\* "if not spans: continue"
SkipPage ==
    /\ pc = "check"
    /\ spans = <<>>
    /\ page_idx' = page_idx + 1
    /\ pc' = "loop"
    /\ UNCHANGED <<doc, typst_lines, spans, underlines, x_clusters, y_clusters,
                   grid, row_idx, output_file,
                   mvars, exit_status, cvars, fvars, evars>>

\* the positions are collected and clustered into columns and rows
ClusterPage ==
    /\ pc = "check"
    /\ spans # <<>>
    /\ x_clusters' = cluster_positions([i \in 1..Len(spans) |-> R(spans[i].x)], XTolerance)
    /\ y_clusters' = cluster_positions([i \in 1..Len(spans) |-> R(spans[i].y)], YTolerance)
    /\ pc' = "grid"
    /\ UNCHANGED <<doc, typst_lines, page_idx, spans, underlines,
                   grid, row_idx, output_file,
                   mvars, exit_status, cvars, fvars, evars>>

\* AssignGrid keeping the grid of the page before when its shape fits
AssignGridReuse ==
    /\ pc = "grid"
    /\ grid' = AssignSpans(spans,
                           IF Len(grid) = Len(y_clusters) /\ Len(grid[1]) = Len(x_clusters)
                           THEN grid ELSE EmptyGrid(y_clusters, x_clusters),
                           y_clusters, x_clusters)
    /\ pc' = "sort"
    /\ UNCHANGED <<doc, typst_lines, page_idx, spans, underlines, x_clusters,
                   y_clusters, row_idx, output_file,
                   mvars, exit_status, cvars, fvars, evars>>

\* the grid is created and every span is assigned to a cell
AssignGrid ==
    /\ pc = "grid"
    /\ grid' = AssignSpans(spans, EmptyGrid(y_clusters, x_clusters), y_clusters, x_clusters)
    /\ pc' = "sort"
    /\ UNCHANGED <<doc, typst_lines, page_idx, spans, underlines, x_clusters,
                   y_clusters, row_idx, output_file,
                   mvars, exit_status, cvars, fvars, evars>>

\* the spans of each cell are sorted by x
SortGrid ==
    /\ pc = "sort"
    /\ grid' = SortCells(grid)
    /\ row_idx' = 0
    /\ pc' = "rows"
    /\ UNCHANGED <<doc, typst_lines, page_idx, spans, underlines, x_clusters,
                   y_clusters, output_file,
                   mvars, exit_status, cvars, fvars, evars>>

\* one iteration of "for row_idx, row in enumerate(grid)"
EmitRow ==
    /\ pc = "rows"
    /\ row_idx < Len(grid)
    /\ typst_lines' = typst_lines \o RowLines(grid[row_idx + 1], Len(x_clusters))
    /\ row_idx' = row_idx + 1
    /\ UNCHANGED <<doc, page_idx, spans, underlines, x_clusters, y_clusters,
                   grid, output_file, pc,
                   mvars, exit_status, cvars, fvars, evars>>

\* EndPage going back to the same page: page_idx is not advanced
EndPageRetry ==
    /\ pc = "rows"
    /\ row_idx = Len(grid)
    /\ typst_lines' = Append(typst_lines, <<>>)
    /\ pc' = "loop"
    /\ UNCHANGED <<doc, page_idx, spans, underlines, x_clusters, y_clusters,
                   grid, row_idx, output_file,
                   mvars, exit_status, cvars, fvars, evars>>

\* the blank line that ends a page with spans
EndPage ==
    /\ pc = "rows"
    /\ row_idx = Len(grid)
    /\ typst_lines' = Append(typst_lines, <<>>)
    /\ page_idx' = page_idx + 1
    /\ pc' = "loop"
    /\ UNCHANGED <<doc, spans, underlines, x_clusters, y_clusters,
                   grid, row_idx, output_file,
                   mvars, exit_status, cvars, fvars, evars>>

\* doc.close() and the output is written
Close ==
    /\ pc = "loop"
    /\ page_idx = Len(doc)
    /\ output_file' = Join(typst_lines, "\n")
    /\ pc' = "done"
    /\ UNCHANGED <<doc, typst_lines, page_idx, spans, underlines, x_clusters,
                   y_clusters, grid, row_idx,
                   mvars, exit_status, cvars, fvars, evars>>

Next ==
    \/ Open
    \/ PageBreak
    \/ ExtractSpans
    \/ ExtractUnderlines
    \/ MarkHit
    \/ MarkMiss
    \/ MarkNextSpan
    \/ MarkReturn
    \/ SkipPage
    \/ ClusterPage
    \/ AssignGrid
    \/ SortGrid
    \/ EmitRow
    \/ EndPage
    \/ Close

Spec == Init /\ [][Next]_vars

----------------------------------------------------------------------------
(* The driver over every sequence of a few pages, run to its end: a         *)
(* sequential program takes its next step as long as it has one.            *)

\* no block, no kept span, one span, two spans and a miss, four spans
ProgressPages == {EmptyPage, BlankPage, OneSpanPage, StyledPage, ColumnsPage}

PageSeqs == SeqsUpTo(ProgressPages, MaxPages)

InitPages ==
    /\ doc \in PageSeqs
    /\ spans = <<>>
    /\ underlines = <<>>
    /\ Locals
    /\ pc = "start"
    /\ HarnessIdle
    /\ FormatIdle
    /\ EnumIdle

\* the driver has a next step in every position but "done", and every step
\* changes vars
NextEnabled == pc # "done"

\* WF_vars(Next), with ENABLED <<Next>>_vars written as NextEnabled
Fairness == []<>(~NextEnabled) \/ []<><<Next>>_vars

SpecProgress == InitPages /\ [][Next]_vars /\ Fairness

----------------------------------------------------------------------------
(* main around generate_typst_from_pdf, with a page reader that can raise   *)
(* on any page.                                                             *)

ExitOk == "0"
ExitError == "1"

\* extract_all_spans(page) raises: the exception leaves the function
ExtractSpansRaises ==
    /\ pc = "spans"
    /\ pc' = "raised"
    /\ UNCHANGED <<doc, typst_lines, page_idx, spans, underlines, x_clusters,
                   y_clusters, grid, row_idx, output_file,
                   mvars, exit_status, cvars, fvars, evars>>

\* extract_underlines(page) raises: the exception leaves the function
ExtractUnderlinesRaises ==
    /\ pc = "underlines"
    /\ pc' = "raised"
    /\ UNCHANGED <<doc, typst_lines, page_idx, spans, underlines, x_clusters,
                   y_clusters, grid, row_idx, output_file,
                   mvars, exit_status, cvars, fvars, evars>>

\* MainExcept saving the lines assembled so far before it exits
MainExceptSavesPartial ==
    /\ pc = "raised"
    /\ output_file' = Join(typst_lines, "\n")
    /\ exit_status' = ExitError
    /\ pc' = "exit"
    /\ UNCHANGED <<doc, typst_lines, page_idx, spans, underlines, x_clusters,
                   y_clusters, grid, row_idx, mvars, cvars, fvars, evars>>

\* "except Exception as e": the error is printed and sys.exit(1)
MainExcept ==
    /\ pc = "raised"
    /\ exit_status' = ExitError
    /\ pc' = "exit"
    /\ UNCHANGED <<doc, typst_lines, page_idx, spans, underlines, x_clusters,
                   y_clusters, grid, row_idx, output_file, mvars, cvars, fvars, evars>>

\* generate_typst_from_pdf has returned: main prints and ends
MainReturn ==
    /\ pc = "done"
    /\ exit_status' = ExitOk
    /\ pc' = "exit"
    /\ UNCHANGED <<doc, typst_lines, page_idx, spans, underlines, x_clusters,
                   y_clusters, grid, row_idx, output_file, mvars, cvars, fvars, evars>>

NextMain ==
    \/ Next
    \/ ExtractSpansRaises
    \/ ExtractUnderlinesRaises
    \/ MainExcept
    \/ MainReturn

SpecMain == InitPages /\ [][NextMain]_vars

----------------------------------------------------------------------------
(* The clustering harness: cluster a list, look every value up, cluster the *)
(* centers once more.                                                       *)

Coords == 0..MaxCoord

RECURSIVE Reverse(_)
Reverse(s) == IF s = <<>> THEN <<>> ELSE Append(Reverse(Tail(s)), Head(s))

\* a population S as a list: ascending, descending, or every value twice
\* and out of order
Arrange(S, how) ==
    LET asc == SortedSet({R(v) : v \in S})
    IN  CASE how = "asc"  -> asc
          [] how = "desc" -> Reverse(asc)
          [] how = "dup"  -> Reverse(asc) \o asc

\* the list of the documented example
ExamplePositions == <<R(10), R(12), R(15), R(30), R(31), R(9)>>

PositionInputs ==
    {Arrange(S, how) : S \in {T \in SUBSET Coords : Cardinality(T) <= MaxDistinct},
                       how \in {"asc", "desc", "dup"}}
    \cup {ExamplePositions}

Tolerances == {XTolerance, YTolerance}

InitCluster ==
    /\ positions \in PositionInputs
    /\ tolerance \in Tolerances
    /\ clusters = <<>>
    /\ value = R(0)
    /\ idx = 0
    /\ round = 0
    /\ cpc = "input"
    /\ DriverIdle
    /\ FormatIdle
    /\ EnumIdle

\* x_clusters = cluster_positions(x_positions, tolerance=...)
Cluster ==
    /\ cpc = "input"
    /\ clusters' = cluster_positions(positions, tolerance)
    /\ cpc' = "clustered"
    /\ UNCHANGED <<positions, tolerance, value, idx, round, dvars, fvars, evars>>

\* col_idx = assign_to_cluster(span.x, x_clusters, tolerance=...)
Assign ==
    /\ cpc \in {"clustered", "assigned"}
    /\ \E v \in Range(positions) :
          /\ value' = v
          /\ idx' = assign_to_cluster(v, clusters, tolerance)
    /\ cpc' = "assigned"
    /\ UNCHANGED <<positions, tolerance, clusters, round, dvars, fvars, evars>>

\* cluster_positions applied to its own output
Recluster ==
    /\ cpc = "clustered"
    /\ round = 0
    /\ positions' = clusters
    /\ round' = 1
    /\ cpc' = "input"
    /\ UNCHANGED <<tolerance, clusters, value, idx, dvars, fvars, evars>>

NextCluster == Cluster \/ Assign \/ Recluster

SpecCluster == InitCluster /\ [][NextCluster]_vars

----------------------------------------------------------------------------
(* The assign_to_cluster harness: one call of the function on any value and *)
(* any list of centers, the empty list and unsorted lists included.         *)

MaxCenters == 3

CenterInputs == UNION {[1..n -> {R(c) : c \in Coords}] : n \in 0..MaxCenters}

InitAssign ==
    /\ clusters \in CenterInputs
    /\ value \in {R(c) : c \in Coords}
    /\ tolerance \in Tolerances
    /\ positions = <<>>
    /\ idx = 0
    /\ round = 0
    /\ cpc = "input"
    /\ DriverIdle
    /\ FormatIdle
    /\ EnumIdle

\* idx = assign_to_cluster(value, clusters, tolerance)
AssignCall ==
    /\ cpc = "input"
    /\ idx' = assign_to_cluster(value, clusters, tolerance)
    /\ cpc' = "assigned"
    /\ UNCHANGED <<positions, tolerance, clusters, value, round, dvars, fvars, evars>>

NextAssign == AssignCall

SpecAssign == InitAssign /\ [][NextAssign]_vars

----------------------------------------------------------------------------
(* The mark_underlines harness: one call with a list of spans and a list of *)
(* underlines {'y', 'x0', 'x1'}, y being any number.                        *)

\* a span as extract_all_spans constructs it: not underlined
PlainSpan(x, y, w, h) ==
    [text |-> <<"a">>, x |-> x, y |-> y, width |-> w, height |-> h,
     is_bold |-> FALSE, is_italic |-> FALSE, is_underlined |-> FALSE]

\* the span of the documented example: x=0, y=0, width=10, height=10
ExampleSpan == PlainSpan(0, 0, 10, 10)

\* bottoms 10 and 15, x ranges [0, 10] and [20, 30]
MarkSpans == {ExampleSpan, PlainSpan(20, 5, 10, 10)}

Underline(y, x0, x1) == [y |-> y, x0 |-> x0, x1 |-> x1]

\* the underlines of the documented example: midpoints 10.2 and 20
ExampleUnderline == Underline(<<51, 5>>, 2, 8)
FarUnderline == Underline(R(20), 2, 8)

\* midpoints 10.2, 20, 15 and 15.1; extents inside, touching and outside
MarkUnderlineSet ==
    {Underline(y, e[1], e[2]) :
        y \in {<<51, 5>>, R(20), R(15), <<151, 10>>},
        e \in {<<2, 8>>, <<-5, 0>>, <<10, 22>>, <<11, 19>>}}

InitMark ==
    /\ doc = <<>>
    /\ spans \in SeqsUpTo(MarkSpans, MaxSpans)
    /\ underlines \in SeqsUpTo(MarkUnderlineSet, MaxUnderlines)
    /\ Locals
    /\ pc = "mark"
    /\ HarnessIdle
    /\ FormatIdle
    /\ EnumIdle

NextMark == MarkHit \/ MarkMiss \/ MarkNextSpan \/ MarkReturn

SpecMark == InitMark /\ [][NextMark]_vars

----------------------------------------------------------------------------
(* The formatting harness: escape_typst on a text, format_span on a span    *)
(* with that text.                                                          *)

\* the characters escape_typst replaces, in the order of its statements
SpecialChars == <<"\\", "#", "*", "_", "[", "]", "<", ">", BACKTICK, "$", "@">>

\* the texts of the documented examples: a#b*c_d and \#
ExampleText == <<"a", "#", "b", "*", "c", "_", "d">>
EscapedHash == <<"\\", "#">>

TextInputs ==
    SeqsUpTo(Range(SpecialChars) \cup {"a"}, MaxLen) \cup {ExampleText, EscapedHash}

FormatInputs ==
    {[NoSpan EXCEPT !.text = t, !.is_bold = b, !.is_italic = i, !.is_underlined = u] :
        t \in TextInputs, b \in BOOLEAN, i \in BOOLEAN, u \in BOOLEAN}

InitFormat ==
    /\ arg_span \in FormatInputs
    /\ ret_escape = <<>>
    /\ ret_format = <<>>
    /\ fpc = "input"
    /\ HarnessIdle
    /\ DriverIdle
    /\ EnumIdle

\* escape_typst(span.text)
Escape ==
    /\ fpc = "input"
    /\ ret_escape' = escape_typst(arg_span.text)
    /\ fpc' = "escaped"
    /\ UNCHANGED <<arg_span, ret_format, cvars, dvars, evars>>

\* format_span(span)
Format ==
    /\ fpc = "escaped"
    /\ ret_format' = format_span(arg_span)
    /\ fpc' = "formatted"
    /\ UNCHANGED <<arg_span, ret_escape, cvars, dvars, evars>>

NextFormat == Escape \/ Format

SpecFormat == InitFormat /\ [][NextFormat]_vars

----------------------------------------------------------------------------
(* TypstLiteGenerator of typst_lite2docx.py: process_file reads the lines   *)
(* of the input in order; a line "+ text" indented by 2*level blanks is a   *)
(* numbered item.  A line is [indent, kind]; the paragraphs of the document *)
(* are [kind, level, text], text being the number run of a numbered item.   *)

\* at most this level of nesting of a numbered item
MaxLevel == 2
\* at most this many lines in the input file
MaxLines == 5

Indents == 0..(2 * MaxLevel + 1)

LOWER ==
    <<"a", "b", "c", "d", "e", "f", "g", "h", "i", "j", "k", "l", "m",
      "n", "o", "p", "q", "r", "s", "t", "u", "v", "w", "x", "y", "z">>

ROMAN_NUMERALS ==
    << <<>>, <<"i">>, <<"i", "i">>, <<"i", "i", "i">>, <<"i", "v">>, <<"v">>,
       <<"v", "i">>, <<"v", "i", "i">>, <<"v", "i", "i", "i">>, <<"i", "x">>,
       <<"x">>, <<"x", "i">>, <<"x", "i", "i">>, <<"x", "i", "i", "i">>,
       <<"x", "i", "v">>, <<"x", "v">>, <<"x", "v", "i">>,
       <<"x", "v", "i", "i">>, <<"x", "v", "i", "i", "i">>, <<"x", "i", "x">>,
       <<"x", "x">> >>

\* "1.", "a." or "i." by level % 3 (numbers from 1 to 26 * 27)
get_enum_number_format(level, number) ==
    LET level_mod == level % 3
    IN  IF level_mod = 0 THEN Append(IntToStr(number), ".")
        ELSE IF level_mod = 1
        THEN IF number <= 26 THEN <<LOWER[number], ".">>
             ELSE <<LOWER[(number - 1) \div 26], LOWER[((number - 1) % 26) + 1], ".">>
        ELSE IF number < Len(ROMAN_NUMERALS)
             THEN Append(ROMAN_NUMERALS[number + 1], ".")
             ELSE Append(IntToStr(number), ".")

\* indent_level = indent_spaces // 2
parse_enum_item(indent) == indent \div 2

\* reset_deeper_enum_counters deleting the counter of the level itself too
ResetDeeperInclusive(counters, level) ==
    [l \in {k \in DOMAIN counters : k < level} |-> counters[l]]

\* the dict without the levels greater than level
reset_deeper_enum_counters(counters, level) ==
    [l \in {k \in DOMAIN counters : ~(k > level)} |-> counters[l]]

\* "if level not in self.enum_counters: ... = 1, else: ... += 1"
IncrementCounter(counters, level) ==
    IF level \notin DOMAIN counters
    THEN [l \in DOMAIN counters \cup {level} |->
             IF l = level THEN 1 ELSE counters[l]]
    ELSE [counters EXCEPT ![level] = @ + 1]

add_enum_item(level) ==
    LET counters == IncrementCounter(
                        reset_deeper_enum_counters(enum_counters, level), level)
    IN  /\ enum_counters' = counters
        /\ current_number' = counters[level]
        /\ paragraphs' = Append(paragraphs,
               [kind |-> "enum", level |-> level,
                text |-> Append(get_enum_number_format(level, counters[level]), " ")])

InitEnum ==
    /\ EnumIdle
    /\ HarnessIdle
    /\ DriverIdle
    /\ FormatIdle

\* a line "+ text": add_enum_item(content, level)
EnumLine ==
    /\ line_idx < MaxLines
    /\ \E indent \in Indents : add_enum_item(parse_enum_item(indent))
    /\ line_idx' = line_idx + 1
    /\ UNCHANGED <<cvars, dvars, fvars>>

\* a line "- text": add_list_item(content, level)
ListLine ==
    /\ line_idx < MaxLines
    /\ \E indent \in {0, 2} :
          paragraphs' = Append(paragraphs,
              [kind |-> "list", level |-> indent \div 2, text |-> <<>>])
    /\ line_idx' = line_idx + 1
    /\ UNCHANGED <<enum_counters, current_number, cvars, dvars, fvars>>

\* any other line that is not blank: add_line(attrs), or an empty paragraph
TextLine ==
    /\ line_idx < MaxLines
    /\ paragraphs' = Append(paragraphs, [kind |-> "text", level |-> 0, text |-> <<>>])
    /\ line_idx' = line_idx + 1
    /\ UNCHANGED <<enum_counters, current_number, cvars, dvars, fvars>>

\* a blank line, or a "#set ..." line: no paragraph
BlankLine ==
    /\ line_idx < MaxLines
    /\ line_idx' = line_idx + 1
    /\ UNCHANGED <<enum_counters, current_number, paragraphs, cvars, dvars, fvars>>

NextEnum == EnumLine \/ ListLine \/ TextLine \/ BlankLine

SpecEnum == InitEnum /\ [][NextEnum]_vars

----------------------------------------------------------------------------
(* Chaining, stated on sets: the clusters are the maximal runs of the       *)
(* distinct values in which every value is within tol of its predecessor.   *)

\* the greatest value of D below v (v is not the least value of D)
Pred(D, v) == CHOOSE u \in D : RLess(u, v) /\ \A w \in D : RLess(w, v) => RLeq(w, u)

\* v starts a new run: it has a predecessor and lies more than tol above it
Breaks(D, v, tol) ==
    /\ \E u \in D : RLess(u, v)
    /\ RLess(R(tol), RSub(v, Pred(D, v)))

\* the 0-based index of the run v lies in
RunIndex(D, v, tol) == Cardinality({w \in D : RLeq(w, v) /\ Breaks(D, w, tol)})

RunMembers(D, k, tol) == {v \in D : RunIndex(D, v, tol) = k}

RECURSIVE SetSum(_)
SetSum(S) == IF S = {} THEN R(0)
             ELSE LET x == CHOOSE y \in S : TRUE IN RAdd(x, SetSum(S \ {x}))

SetMean(S) == RDivInt(SetSum(S), Cardinality(S))

RunCount(D, tol) == IF D = {} THEN 0 ELSE 1 + Cardinality({w \in D : Breaks(D, w, tol)})

RunCenters(D, tol) == [k \in 1..RunCount(D, tol) |-> SetMean(RunMembers(D, k - 1, tol))]

Clustered == cpc \in {"clustered", "assigned"}

\* C1: cluster_positions chains the distinct values in ascending order: two
\* consecutive values share a cluster iff they differ by at most the
\* tolerance, the result is the list of the clusters' means in that order;
\* [10, 12, 15, 30, 31, 9] with tolerance 5 gives [11.5, 30.5] and the empty
\* list gives the empty list.
C1_Chaining ==
    Clustered =>
        /\ clusters = RunCenters(Range(positions), tolerance)
        /\ (positions = ExamplePositions /\ tolerance = 5)
              => clusters = << <<23, 2>>, <<61, 2>> >>
        /\ positions = <<>> => clusters = <<>>

C1_Witness ==
    /\ cpc = "clustered"
    /\ positions = ExamplePositions
    /\ tolerance = 5
    /\ clusters = << <<23, 2>>, <<61, 2>> >>

\* C2: a value of the population that built the clusters is always within
\* the tolerance of some returned center, so assign_to_cluster never takes
\* its "return 0" fallback.
C2_NoFallback ==
    (cpc = "assigned" /\ round = 0) => Matching(value, clusters, tolerance) # {}

\* C3: assign_to_cluster returns the index of the cluster the value was
\* chained into.
C3_OwnCluster ==
    (cpc = "assigned" /\ round = 0) => idx = RunIndex(Range(positions), value, tolerance)

\* C4: adjacent centers returned by cluster_positions differ by more than
\* the tolerance, and clustering the centers again with the same tolerance
\* returns the same list.
C4_FixedPoint ==
    Clustered =>
        /\ \A i \in 1..(Len(clusters) - 1) :
              RLess(R(tolerance), RSub(clusters[i + 1], clusters[i]))
        /\ round = 1 => clusters = positions

\* the centers were clustered again, there are several and one is the mean
\* of a merged cluster
C4_Witness ==
    /\ cpc = "clustered"
    /\ round = 1
    /\ Len(clusters) >= 2
    /\ \E i \in 1..Len(clusters) : clusters[i][2] > 1

----------------------------------------------------------------------------
(* The page driver: what is read off the output                             *)

\* the last n lines of the output
LastLines(n) == SubSeq(typst_lines, Len(typst_lines) - n + 1, Len(typst_lines))

Count(lines, l) == Cardinality({i \in 1..Len(lines) : lines[i] = l})

\* the row loop has just appended the block of row row_idx - 1
RowEmitted ==
    /\ pc = "rows"
    /\ row_idx >= 1
    /\ FilledCols(grid[row_idx]) > 0

\* the row that was just serialized
EmittedRow == grid[row_idx]

\* the line of column c (0-based) in the block just appended
EmittedLine(c) == typst_lines[Len(typst_lines) - Len(EmittedRow) + c]

\* a line "  [...],"
IsCellLine(l) ==
    /\ Len(l) >= 5
    /\ SubSeq(l, 1, 3) = CELL_OPEN
    /\ SubSeq(l, Len(l) - 1, Len(l)) = CELL_CLOSE

\* lines i .. i+n+3 are a grid block of n columns
IsBlockAt(lines, i, n) ==
    /\ i + n + 3 <= Len(lines)
    /\ lines[i] = GRID_OPEN
    /\ lines[i + 1] = COLUMNS_OPEN \o IntToStr(n) \o <<",">>
    /\ lines[i + 2] = GUTTER
    /\ \A c \in 1..n : IsCellLine(lines[i + 2 + c])
    /\ lines[i + 3 + n] = GRID_CLOSE

\* the x coordinates of the spans of the current page
XPopulation == {R(spans[i].x) : i \in 1..Len(spans)}

\* C5: every grid block of a page declares "columns: N" with N the number of
\* x-clusters of the page and holds exactly N cell entries in column order,
\* an empty cell as "[]"; x in {0, 0, 50, 100} over y in {0, 20} gives two
\* rows of 3 columns each.
C5_ColumnStability ==
    /\ \A i \in 1..Len(typst_lines) :
          typst_lines[i] = GRID_OPEN =>
              \E n \in 1..Len(typst_lines) : IsBlockAt(typst_lines, i, n)
    /\ RowEmitted =>
          LET n == RunCount(XPopulation, XTolerance)
          IN  /\ Len(typst_lines) >= n + 4
              /\ IsBlockAt(typst_lines, Len(typst_lines) - n - 3, n)
              /\ \A c \in 0..(n - 1) :
                    /\ EmittedLine(c) = EMPTY_CELL <=> EmittedRow[c + 1] = <<>>
                    /\ EmittedLine(c) = CellLine(EmittedRow[c + 1])
              /\ \A c \in 1..(n - 1) : RLess(x_clusters[c], x_clusters[c + 1])
    /\ (pc = "done" /\ doc = <<ColumnsPage>>) =>
          /\ Count(typst_lines, GRID_OPEN) = 2
          /\ Count(typst_lines, COLUMNS_OPEN \o <<"3", ",">>) = 2

\* the second row of the example: a span, an empty cell, a span
C5_Witness ==
    /\ RowEmitted
    /\ page = ColumnsPage
    /\ row_idx = 2
    /\ LastLines(4) = <<CELL_OPEN \o <<"b">> \o CELL_CLOSE, EMPTY_CELL,
                        CELL_OPEN \o <<"d">> \o CELL_CLOSE, GRID_CLOSE>>

\* the positions inside the body of the page loop
PagePositions ==
    {"spans", "underlines", "mark", "check", "grid", "sort", "rows"}

\* a step of the iteration of page page_idx
OnPage ==
    \/ pc = "loop" /\ page_idx < Len(doc)
    \/ pc \in PagePositions

\* the page being processed yields zero spans
OnZeroSpanPage == OnPage /\ extract_all_spans(page) = <<>>

\* C6 as claimed: processing a page that yields zero spans appends nothing
\* at all to the output, whatever its position in the document.
C6_AppendsNothing ==
    [][OnZeroSpanPage => typst_lines' = typst_lines]_vars

\* C6: processing a page that yields zero spans appends no grid block and
\* no blank end-of-page line; the only lines it appends are the page-break
\* marker and the blank line after it, and only when its index is > 0.
C6_AppendsOnlyPageBreak ==
    [][OnZeroSpanPage =>
          typst_lines' = typst_lines \o
              (IF pc = "loop" /\ page_idx > 0 THEN <<PAGEBREAK, <<>>>> ELSE <<>>)]_vars

\* a zero-span page of index > 0 has just been skipped
C6_Witness ==
    /\ pc = "loop"
    /\ page_idx >= 2
    /\ extract_all_spans(doc[page_idx]) = <<>>
    /\ LastLines(2) = <<PAGEBREAK, <<>>>>

Max(a, b) == IF a >= b THEN a ELSE b

\* the pages whose iteration has begun
StartedPages ==
    page_idx + (IF pc \in PagePositions
                THEN 1 ELSE 0)

\* the index of the last page-break marker, 0 if there is none
LastPageBreak ==
    Max(0, CHOOSE k \in 0..Len(typst_lines) :
              /\ k > 0 => typst_lines[k] = PAGEBREAK
              /\ \A j \in (k + 1)..Len(typst_lines) : typst_lines[j] # PAGEBREAK)

\* C7: one "#pagebreak()" is emitted before the content of every page of
\* index > 0 and none before the first, P-1 in all (0 when P <= 1); the
\* marker of a page precedes all its grid blocks and follows those of the
\* earlier pages.
C7_PageBreaks ==
    /\ pc # "start" =>
          Count(typst_lines, PAGEBREAK) = Max(0, StartedPages - 1)
    /\ pc = "done" => Count(typst_lines, PAGEBREAK) = Max(0, Len(doc) - 1)
    /\ pc = "rows" =>
          /\ Count(typst_lines, PAGEBREAK) = page_idx
          /\ Count(SubSeq(typst_lines, LastPageBreak + 1, Len(typst_lines)), GRID_OPEN)
                = Cardinality({r \in 1..row_idx : FilledCols(grid[r]) > 0})

\* two pages with grid blocks and the one marker between them
C7_Witness ==
    /\ pc = "done"
    /\ Len(doc) = 2
    /\ Count(typst_lines, PAGEBREAK) = 1
    /\ Count(SubSeq(typst_lines, 1, LastPageBreak), GRID_OPEN) >= 1
    /\ Count(SubSeq(typst_lines, LastPageBreak + 1, Len(typst_lines)), GRID_OPEN) >= 2

\* the page p rendered on its own: its spans, clusters, cells and lines
RefSpans(p) == mark_underlines(extract_all_spans(p), extract_underlines(p))

RefCols(p) ==
    cluster_positions([i \in 1..Len(RefSpans(p)) |-> R(RefSpans(p)[i].x)], XTolerance)

RefRows(p) ==
    cluster_positions([i \in 1..Len(RefSpans(p)) |-> R(RefSpans(p)[i].y)], YTolerance)

\* the spans of p looked up into row r and column c (0-based), by x
RefCell(p, r, c) ==
    SortByX(SelectSeq(RefSpans(p),
                      LAMBDA s : /\ assign_to_cluster(R(s.y), RefRows(p), YTolerance) = r
                                 /\ assign_to_cluster(R(s.x), RefCols(p), XTolerance) = c))

RefPageLines(p) ==
    Concat([r \in 1..Len(RefRows(p)) |->
               RowLines([c \in 1..Len(RefCols(p)) |-> RefCell(p, r - 1, c - 1)],
                        Len(RefCols(p)))])

\* C8: the grid blocks emitted for a page (column count, row count, cell
\* contents) are those of the page rendered on its own, whatever pages
\* precede it in the document; a page with zero spans emits no grid block.
C8_PageIsolation ==
    /\ (pc = "rows" /\ row_idx = Len(grid)) =>
          LET ref == RefPageLines(page)
          IN  /\ Len(x_clusters) = Len(RefCols(page))
              /\ Len(grid) = Len(RefRows(page))
              /\ Len(typst_lines) > Len(ref)
              /\ LastLines(Len(ref)) = ref
              /\ typst_lines[Len(typst_lines) - Len(ref)] = <<>>
    /\ (OnZeroSpanPage /\ pc # "loop") => typst_lines[Len(typst_lines)] = <<>>

\* the rows of a second page are complete; the first page had spans too
C8_Witness ==
    /\ pc = "rows"
    /\ row_idx = Len(grid)
    /\ page_idx = 1
    /\ doc[1] = OneSpanPage
    /\ Len(grid) = 2
    /\ Count(typst_lines, GRID_OPEN) = 3

\* the texts of the spans of a cell
CellTexts(cell) == [i \in 1..Len(cell) |-> cell[i].text]

\* no span of the cell is bold, italic or underlined
Unstyled(cell) ==
    \A i \in 1..Len(cell) :
        ~cell[i].is_bold /\ ~cell[i].is_italic /\ ~cell[i].is_underlined

ITEM_ONE == <<" ", "I", "t", "e", "m", " ", "o", "n", "e">>
ITEM == <<"I", "t", "e", "m">>
TWO == <<" ", "t", "w", "o">>

\* the cells of the row just serialized whose spans have the texts ts
EmittedCells(ts) ==
    {c \in 0..(Len(EmittedRow) - 1) :
        CellTexts(EmittedRow[c + 1]) = ts /\ Unstyled(EmittedRow[c + 1])}

\* C9 as claimed: a cell with the texts [bullet, " Item one"] renders as
\* "- Item one" and a cell with the texts ["Item", " two"] as "Item two".
C9_SingleSpace ==
    RowEmitted =>
        /\ \A c \in EmittedCells(<<<<BULLET>>, ITEM_ONE>>) :
              EmittedLine(c) = CELL_OPEN \o <<"-", " ">> \o ITEM \o <<" ", "o", "n", "e">>
                               \o CELL_CLOSE
        /\ \A c \in EmittedCells(<<ITEM, TWO>>) :
              EmittedLine(c) = CELL_OPEN \o ITEM \o TWO \o CELL_CLOSE

\* C9: a cell with the texts [bullet, " Item one"] renders as "-  Item one":
\* the list marker "- " and then the second span's text with its own leading
\* space; a cell with the texts ["Item", " two"] renders as "Item two".
C9_MarkerThenText ==
    RowEmitted =>
        /\ \A c \in EmittedCells(<<<<BULLET>>, ITEM_ONE>>) :
              EmittedLine(c) = CELL_OPEN \o <<"-", " ">> \o ITEM_ONE \o CELL_CLOSE
        /\ \A c \in EmittedCells(<<ITEM, TWO>>) :
              EmittedLine(c) = CELL_OPEN \o ITEM \o TWO \o CELL_CLOSE

\* the bullet cell of the example has been serialized
C9_Witness ==
    /\ RowEmitted
    /\ EmittedCells(<<<<BULLET>>, ITEM_ONE>>) # {}
    /\ Len(EmittedLine(0)) = 16

\* C10: for each of the three glyphs, a cell whose stripped text begins
\* with the glyph and whose first span is exactly the glyph is rendered as
\* a list item: the first span dropped, "- " in front.
C10_AllGlyphs ==
    RowEmitted =>
        \A c \in 0..(Len(EmittedRow) - 1) :
            LET cell == EmittedRow[c + 1]
            IN  \A g \in {BULLET, BLACK_CIRCLE, WHITE_BULLET} :
                    (/\ cell # <<>>
                     /\ StartsWith(Strip(Concat(CellTexts(cell))), g)
                     /\ Strip(cell[1].text) = <<g>>)
                    => EmittedLine(c) =
                          CELL_OPEN \o LIST_MARKER
                          \o Concat([i \in 1..(Len(cell) - 1) |-> format_span(cell[i + 1])])
                          \o CELL_CLOSE

\* C11: whenever the first span's stripped text is not exactly a bullet
\* glyph (a single span "(bullet) Item", a cell starting with another
\* character), the cell is rendered as the concatenation of format_span over
\* all its spans: no "- " in front and no span dropped.
C11_Otherwise ==
    RowEmitted =>
        \A c \in 0..(Len(EmittedRow) - 1) :
            LET cell == EmittedRow[c + 1]
            IN  (cell # <<>> /\ Strip(cell[1].text) \notin BulletGlyphs)
                => EmittedLine(c) =
                      CELL_OPEN
                      \o Concat([i \in 1..Len(cell) |-> format_span(cell[i])])
                      \o CELL_CLOSE

\* mark_underlines has returned to its caller
Marked == pc = "check"

\* the rule as the specification words it
RuleHolds(span, ul) ==
    LET d == RSub(ul.y, R(span.y + span.height))
    IN  /\ RLeq(R(-5), d)
        /\ RLeq(d, R(5))
        /\ ul.x1 >= span.x
        /\ ul.x0 <= span.x + span.width

SameBox(a, b) ==
    a.x = b.x /\ a.y = b.y /\ a.width = b.width /\ a.height = b.height

\* C12: after mark_underlines(spans, underlines) a span (not underlined
\* before) is underlined iff some underline has its midpoint within 5 of the
\* span's bottom and an x extent that meets the span's; the span (0, 0, 10,
\* 10) is marked by the underline of midpoint 10.2 over [2, 8] and not by the
\* one of midpoint 20.
C12_MatchingRule ==
    Marked =>
        /\ \A i \in 1..Len(spans) :
              spans[i].is_underlined
                  <=> \E j \in 1..Len(underlines) : RuleHolds(spans[i], underlines[j])
        /\ \A i \in 1..Len(spans) :
              SameBox(spans[i], ExampleSpan) =>
                  /\ underlines = <<ExampleUnderline>> => spans[i].is_underlined
                  /\ underlines = <<FarUnderline>> => ~spans[i].is_underlined

\* the example span after a call with the far underline and then the near one
C12_Witness ==
    /\ Marked
    /\ underlines = <<FarUnderline, ExampleUnderline>>
    /\ spans = <<[ExampleSpan EXCEPT !.is_underlined = TRUE]>>

\* the spans held by the cells of a grid
GridSpans(g) ==
    UNION {UNION {Range(g[r][c]) : c \in 1..Len(g[r])} : r \in 1..Len(g)}

\* the span mark_underlines is at was written in this step
Written == spans' # spans

\* C13: mark_underlines writes is_underlined of a span at most once: at the
\* first underline, in list order, that matches, from false to true, leaving
\* the loop over the underlines for that span in the same step and never
\* coming back to the span; it changes no other field, no other span and no
\* underline; and outside mark_underlines no step of the page pipeline
\* writes the flag: the spans are constructed not underlined and the grid
\* holds them as mark_underlines left them.
C13_FlagDiscipline ==
    [][/\ pc = "mark" =>
             /\ underlines' = underlines
             /\ span_i' >= span_i
             /\ (span_i' = span_i /\ pc' = "mark") => ~CurSpan.is_underlined
             /\ Written =>
                   /\ spans' = [spans EXCEPT ![span_i + 1].is_underlined = TRUE]
                   /\ ~CurSpan.is_underlined
                   /\ UnderlineMatches(CurSpan, CurUl)
                   /\ \A j \in 1..ul_j : ~UnderlineMatches(CurSpan, underlines[j])
                   /\ span_i' = span_i + 1
       /\ pc = "spans" => \A i \in 1..Len(spans') : ~spans'[i].is_underlined
       /\ pc \notin {"mark", "spans"} => spans' = spans
       /\ pc \in {"grid", "sort"} => GridSpans(grid') = Range(spans)]_vars

\* one underline has marked both spans of a page; an underline behind it
\* matches too
C13_Witness ==
    /\ pc = "check"
    /\ Len(spans) = 2
    /\ Len(underlines) = 2
    /\ \A i \in 1..2 : spans[i].is_underlined /\ UnderlineMatches(spans[i], underlines[1])
    /\ UnderlineMatches([spans[2] EXCEPT !.is_underlined = FALSE], underlines[2])

\* one character escaped on its own
EscapeChar(c) == IF c \in Range(SpecialChars) THEN <<"\\", c>> ELSE <<c>>

Escaped == fpc \in {"escaped", "formatted"}

\* C14: escape_typst returns its argument with every one of the 11
\* characters \ # * _ [ ] < > (grave accent) $ @ replaced, character by
\* character, by a backslash and the character, and every other character
\* as it is: no inserted backslash is escaped again; a#b*c_d gives
\* a\#b\*c\_d and \# gives \\\#.
C14_Escaping ==
    Escaped =>
        /\ ret_escape =
              Concat([i \in 1..Len(arg_span.text) |-> EscapeChar(arg_span.text[i])])
        /\ arg_span.text = ExampleText =>
              ret_escape = <<"a", "\\", "#", "b", "\\", "*", "c", "\\", "_", "d">>
        /\ arg_span.text = EscapedHash =>
              ret_escape = <<"\\", "\\", "\\", "#">>

\* the text \# has been escaped to \\\#
C14_Witness ==
    /\ fpc = "escaped"
    /\ arg_span.text = EscapedHash
    /\ ret_escape = <<"\\", "\\", "\\", "#">>

\* t between open and a closing bracket
Wrap(open, t) == open \o t \o <<"]">>

\* C15: with t the escaped text, format_span gives #underline[#strong[t]]
\* for bold and underlined, #strong[t] for bold and not underlined, #emph[t]
\* for italic only, #underline[t] for underlined only, and t for no style.
C15_StylePrecedence ==
    fpc = "formatted" =>
        LET t == ret_escape
            b == arg_span.is_bold
            i == arg_span.is_italic
            u == arg_span.is_underlined
        IN  /\ (b /\ u) => ret_format = Wrap(UNDERLINE_OPEN, Wrap(STRONG_OPEN, t))
            /\ (b /\ ~u) => ret_format = Wrap(STRONG_OPEN, t)
            /\ (i /\ ~b /\ ~u) => ret_format = Wrap(EMPH_OPEN, t)
            /\ (u /\ ~b /\ ~i) => ret_format = Wrap(UNDERLINE_OPEN, t)
            /\ (~b /\ ~i /\ ~u) => ret_format = t

\* a bold, italic and underlined span with a text that needs escaping
C15_Witness ==
    /\ fpc = "formatted"
    /\ arg_span.is_bold /\ arg_span.is_italic /\ arg_span.is_underlined
    /\ arg_span.text = <<"a", "#">>
    /\ ret_format = UNDERLINE_STRONG_OPEN \o <<"a", "\\", "#", "]", "]">>

\* the lines this step has appended
Appended == SubSeq(typst_lines', Len(typst_lines) + 1, Len(typst_lines'))

\* some cell of the row holds a span
HasSpan(row) == \E c \in 1..Len(row) : row[c] # <<>>

\* C16: the row loop visits the rows of the page's grid in ascending order
\* of their y-clusters, one per step, and appends a grid block for the row,
\* holding the row's cells, if and only if some cell of the row contains a
\* span; for a row without any span it appends nothing.
C16_EmptyRowOmission ==
    [][(pc = "rows" /\ row_idx < Len(grid)) =>
          LET row == grid[row_idx + 1]
          IN  /\ row_idx' = row_idx + 1
              /\ Len(grid) = Len(y_clusters)
              /\ \A r \in 1..(Len(y_clusters) - 1) :
                    RLess(y_clusters[r], y_clusters[r + 1])
              /\ typst_lines' = typst_lines \o Appended
              /\ HasSpan(row) <=> Appended # <<>>
              /\ HasSpan(row) <=> Count(Appended, GRID_OPEN) = 1
              /\ HasSpan(row) =>
                    /\ Appended[1] = GRID_OPEN
                    /\ Appended[Len(Appended)] = GRID_CLOSE
                    /\ Len(Appended) = Len(row) + 4
                    /\ \A c \in 1..Len(row) : Appended[3 + c] = CellLine(row[c])]_vars

\* both rows of a page were emitted, each with one filled cell out of two
C16_Witness ==
    /\ pc = "rows"
    /\ row_idx = 2
    /\ Len(grid) = 2
    /\ Len(x_clusters) = 2
    /\ FilledCols(grid[1]) = 1 /\ FilledCols(grid[2]) = 1
    /\ Count(SubSeq(typst_lines, LastPageBreak + 1, Len(typst_lines)), GRID_OPEN) = 2
    /\ LastLines(12)[1] = GRID_OPEN

\* how often the span s occurs in the list l
Occurrences(l, s) == Cardinality({i \in 1..Len(l) : l[i] = s})

\* the cells of the grid as one list, row by row
GridList(g) == Concat([r \in 1..Len(g) |-> Concat(g[r])])

\* the grid of the page has been filled
GridAssigned == pc \in {"sort", "rows"}

\* C17: after the grid assignment of a page every span of the page is held
\* by exactly one cell, at one row index and one column index of the grid;
\* none is dropped or duplicated (equal spans counted as often as they were
\* extracted) and the cells hold as many spans as were extracted.
C17_SpanConservation ==
    GridAssigned =>
        /\ Len(grid) = Len(y_clusters)
        /\ \A r \in 1..Len(grid) : Len(grid[r]) = Len(x_clusters)
        /\ Len(GridList(grid)) = Len(spans)
        /\ \A i \in 1..Len(spans) :
              /\ Occurrences(GridList(grid), spans[i]) = Occurrences(spans, spans[i])
              /\ \E r \in 1..Len(grid) : \E c \in 1..Len(x_clusters) :
                    spans[i] \in Range(grid[r][c])
        /\ GridSpans(grid) = Range(spans)

\* the same span extracted twice sits twice in its cell, beside an empty one
C17_Witness ==
    /\ pc = "sort"
    /\ Len(spans) = 2
    /\ spans[1] = spans[2]
    /\ Len(GridList(grid)) = 2
    /\ page_idx = 1

\* C18: generate_typst_from_pdf takes the pages in ascending order, each
\* exactly once: the iteration of a page begins only at the top of the loop,
\* page_idx moves only from a page that was processed to the next one, by
\* one, and never back; the output is written only after the last page, and
\* every run reaches the terminal position.
C18_Progress ==
    /\ [][/\ page_idx' = page_idx \/ page_idx' = page_idx + 1
          /\ page_idx' # page_idx =>
                pc \in {"check", "rows"} /\ pc' = "loop" /\ page_idx < Len(doc)
          /\ (pc' = "loop" /\ pc # "start") => page_idx' = page_idx + 1
          /\ pc' = "spans" => pc = "loop" /\ page_idx' = page_idx
          /\ pc = "spans" => pc' = "underlines" /\ spans' = extract_all_spans(page)
          /\ output_file' # output_file => page_idx = Len(doc) /\ pc' = "done"
          /\ pc # "done"]_vars
    /\ [](pc = "done" => page_idx = Len(doc) /\ output_file = Join(typst_lines, "\n"))
    /\ [](pc # "done" => output_file = NotWritten)
    /\ <>(pc = "done")

\* a document of two pages with spans has been written
C18_Witness ==
    /\ pc = "done"
    /\ Len(doc) = 2
    /\ page_idx = 2
    /\ output_file # NotWritten
    /\ Count(typst_lines, GRID_OPEN) >= 2
    /\ Count(typst_lines, PAGEBREAK) = 1

\* C19: when extract_all_spans or extract_underlines raises on a page, the
\* exception leaves generate_typst_from_pdf before anything is written:
\* main's handler ends the process with status 1 and no output file exists,
\* whatever lines the pages before had contributed; a file exists only
\* after a run that ends with status 0.
C19_NoPartialOutput ==
    /\ [](pc = "raised" =>
             /\ output_file = NotWritten
             /\ exit_status = Running
             /\ page_idx < Len(doc))
    /\ [][pc = "raised" =>
             /\ pc' = "exit"
             /\ exit_status' = ExitError
             /\ output_file' = NotWritten]_vars
    /\ [](exit_status = ExitError => output_file = NotWritten)
    /\ [](pc = "exit" =>
             /\ exit_status \in {ExitOk, ExitError}
             /\ exit_status = ExitOk <=> output_file = Join(typst_lines, "\n")
             /\ exit_status = ExitError <=> page_idx < Len(doc))

\* the reader raised on the second page, after the first had given a block
C19_Witness ==
    /\ pc = "exit"
    /\ exit_status = ExitError
    /\ page_idx = 1
    /\ Count(typst_lines, GRID_OPEN) >= 1
    /\ Count(typst_lines, PAGEBREAK) = 1
    /\ output_file = NotWritten

\* the "#set text" line with the default font
SET_TEXT == SET_TEXT_OPEN \o DEFAULT_FONT \o SET_TEXT_CLOSE

\* the indices of the lines equal to l
IndicesOf(l) == {i \in 1..Len(typst_lines) : typst_lines[i] = l}

\* C20: the three header directives (#set page, #set text, #set par) occur
\* exactly once each in the output, in lines 3 to 5, before every page-break
\* marker and every grid block, for any number of pages; a document of zero
\* pages gives the header alone.
C20_HeaderOnce ==
    /\ pc = "start" => typst_lines = <<>>
    /\ pc \notin {"start", "idle"} =>
          /\ IndicesOf(SET_PAGE) = {3}
          /\ IndicesOf(SET_TEXT) = {4}
          /\ IndicesOf(SET_PAR) = {5}
          /\ \A i \in IndicesOf(PAGEBREAK) \cup IndicesOf(GRID_OPEN) : i > 5
    /\ (pc = "done" /\ doc = <<>>) =>
          /\ typst_lines = <<HEADER_COMMENT, <<>>, SET_PAGE, SET_TEXT, SET_PAR, <<>>>>
          /\ output_file = Join(typst_lines, "\n")

\* a document of full length: its markers and blocks behind the one header
C20_Witness ==
    /\ pc = "done"
    /\ Len(doc) = MaxPages
    /\ IndicesOf(SET_PAGE) = {3}
    /\ Cardinality(IndicesOf(PAGEBREAK)) = MaxPages - 1
    /\ Cardinality(IndicesOf(GRID_OPEN)) >= MaxPages

\* C21: on a page that yields zero spans the driver goes from the span
\* extraction directly to the skip: no step of that page's iteration
\* extracts underlines or enters mark_underlines.
C21_SkipsUnderlines ==
    [][OnZeroSpanPage => (underlines' = underlines /\ pc' # "mark")]_vars

\* the test of the loop of assign_to_cluster for the 0-based index i
Within(i) ==
    LET d == RSub(value, clusters[i + 1])
    IN  \/ RLeq(R(0), d) /\ RLeq(d, R(tolerance))
        \/ RLeq(d, R(0)) /\ RLeq(RSub(clusters[i + 1], value), R(tolerance))

\* C22: assign_to_cluster(value, centers, tol) returns the smallest index i
\* with |value - centers[i]| <= tol when there is one, and 0 otherwise (the
\* empty list included); with a non-empty list the index returned is always
\* one of 0..len(centers)-1.
C22_SmallestMatch ==
    cpc = "assigned" =>
        LET n == Len(clusters)
        IN  /\ (\E i \in 0..(n - 1) : Within(i)) =>
                    /\ idx \in 0..(n - 1)
                    /\ Within(idx)
                    /\ \A j \in 0..(idx - 1) : ~Within(j)
            /\ (\A i \in 0..(n - 1) : ~Within(i)) => idx = 0
            /\ n > 0 => idx \in 0..(n - 1)

\* a call where the first center does not match and two later ones do
C22_Witness ==
    /\ cpc = "assigned"
    /\ Len(clusters) = 3
    /\ ~Within(0)
    /\ Within(1)
    /\ Within(2)
    /\ idx = 1

\* C23: for a non-empty list of positions the list of centers is non-empty
\* and the index assign_to_cluster computes for a position of the page is an
\* index of that list (0 <= idx < len(clusters)), so the grid write
\* grid[row_idx][col_idx] is in range, the fallback included.
C23_InRange ==
    /\ (Clustered /\ positions # <<>>) => Len(clusters) > 0
    /\ cpc = "assigned" => (0 <= idx /\ idx < Len(clusters))

\* a position that misses both centers is given index 0
C23_Witness ==
    /\ cpc = "assigned"
    /\ round = 0
    /\ Len(clusters) = 2
    /\ \A i \in 0..1 : ~Within(i)
    /\ idx = 0

\* the 0-based index of the member list cluster_positions chained v into
OwnIndex(v) ==
    LET cl == ChainClusters(positions, tolerance)
    IN  CHOOSE k \in 0..(Len(cl) - 1) : v \in Range(cl[k + 1])

\* C25: a value of the population is never within the tolerance of the
\* center of a cluster other than the one it was chained into, so for such a
\* value assign_to_cluster returns the value's own cluster index or the
\* fallback 0, never a neighbouring index through a tolerance match.
C25_Separation ==
    cpc = "assigned" =>
        /\ \A v \in Range(positions) :
              \A i \in 0..(Len(clusters) - 1) :
                 RLeq(RAbs(RSub(v, clusters[i + 1])), R(tolerance)) => i = OwnIndex(v)
        /\ idx \in {OwnIndex(value), 0}

\* a value of the second cluster misses its own center and gets 0
C25_Witness ==
    /\ cpc = "assigned"
    /\ round = 0
    /\ Len(clusters) = 2
    /\ OwnIndex(value) = 1
    /\ idx = 0

\* the ways to read the cell as a selection of distinct entries of the
\* page's span list
SourceIndices(cell) ==
    {f \in [1..Len(cell) -> 1..Len(spans)] :
        /\ \A i \in 1..Len(cell) : spans[f[i]] = cell[i]
        /\ \A i, j \in 1..Len(cell) : i # j => f[i] # f[j]}

\* C24: while the rows of a page are serialized, the spans of every cell are
\* in non-decreasing order of x, and spans of equal x stand in the order in
\* which they were extracted.
C24_CellOrder ==
    pc = "rows" =>
        \A r \in 1..Len(grid) : \A c \in 1..Len(grid[r]) :
            LET cell == grid[r][c]
            IN  /\ \A i \in 1..(Len(cell) - 1) : cell[i].x <= cell[i + 1].x
                /\ \E f \in SourceIndices(cell) :
                      \A i, j \in 1..Len(cell) :
                         (i < j /\ cell[i].x = cell[j].x) => f[i] < f[j]

\* a cell whose two spans were extracted in descending order of x
C24_Witness ==
    /\ pc = "rows"
    /\ Len(spans) = 2
    /\ spans[1].x > spans[2].x
    /\ grid[1][1] = <<spans[2], spans[1]>>

\* lists with the same distinct values as p: sorted, reversed, rotated,
\* every value twice, and one value once more than the others
Rearranged(p) ==
    {SortedSet(Range(p)), Reverse(p), p \o p}
    \cup (IF p = <<>> THEN {} ELSE {Tail(p) \o <<Head(p)>>, p \o <<Head(p)>>,
                                     <<p[Len(p)]>> \o p})

\* C26: cluster_positions returns the same centers for the input in any
\* order and with any multiplicities of the same distinct values; each center
\* is the plain mean of the distinct values of its cluster, and the centers
\* are strictly ascending.
C26_OrderAndMultiplicity ==
    Clustered =>
        /\ \A q \in Rearranged(positions) :
              cluster_positions(q, tolerance) = clusters
        /\ \A k \in 1..Len(clusters) :
              clusters[k] = SetMean(RunMembers(Range(positions), k - 1, tolerance))
        /\ \A k \in 1..(Len(clusters) - 1) : RLess(clusters[k], clusters[k + 1])

\* a descending list with every value twice, two clusters, the first the
\* mean of several distinct values
C26_Witness ==
    /\ cpc = "clustered"
    /\ round = 0
    /\ Len(positions) >= 2
    /\ Len(positions) = 2 * Cardinality(Range(positions))
    /\ RLess(positions[2], positions[1])
    /\ Len(clusters) = 2
    /\ Cardinality(RunMembers(Range(positions), 0, tolerance)) = 3

\* C27: for the style combinations the precedence list does not name, with
\* t the escaped text: bold and italic (not underlined) gives #strong[t],
\* bold, italic and underlined gives #underline[#strong[t]], and italic and
\* underlined (not bold) gives #emph[t]; the italic of a bold span and the
\* underline of an italic span leave no markup.
C27_DroppedStyles ==
    fpc = "formatted" =>
        LET t == escape_typst(arg_span.text)
            b == arg_span.is_bold
            i == arg_span.is_italic
            u == arg_span.is_underlined
        IN  /\ (b /\ i /\ ~u) => ret_format = STRONG_OPEN \o t \o <<"]">>
            /\ (b /\ i /\ u) => ret_format = UNDERLINE_STRONG_OPEN \o t \o <<"]", "]">>
            /\ (~b /\ i /\ u) => ret_format = EMPH_OPEN \o t \o <<"]">>

\* an italic and underlined span, not bold, with a text that needs escaping
C27_Witness ==
    /\ fpc = "formatted"
    /\ ~arg_span.is_bold /\ arg_span.is_italic /\ arg_span.is_underlined
    /\ arg_span.text = <<"a", "#">>
    /\ ret_format = EMPH_OPEN \o <<"a", "\\", "#", "]">>

\* the number of numbered items of level L among the paragraphs ps that
\* come after the last numbered item of a level shallower than L
SinceShallower(ps, L) ==
    LET shallower == {i \in 1..Len(ps) : ps[i].kind = "enum" /\ ps[i].level < L}
        from      == IF shallower = {} THEN 0
                     ELSE CHOOSE i \in shallower : \A j \in shallower : j <= i
    IN  Cardinality({i \in (from + 1)..Len(ps) :
                        ps[i].kind = "enum" /\ ps[i].level = L})

\* C28: a step that adds a numbered item of level L leaves no counter of a
\* level greater than L, leaves the counters of the levels below L as they
\* were, and numbers the item 1 plus the count of level-L items added since
\* the most recent item of a shallower level; every other step leaves the
\* counters alone, so lines between numbered items do not restart the
\* numbering.
C28_CounterState ==
    [][IF Len(paragraphs') > Len(paragraphs)
          /\ paragraphs'[Len(paragraphs')].kind = "enum"
       THEN LET L == paragraphs'[Len(paragraphs')].level
                n == 1 + SinceShallower(paragraphs, L)
            IN  /\ \A l \in DOMAIN enum_counters' : l <= L
                /\ \A l \in 0..(L - 1) :
                      /\ l \in DOMAIN enum_counters' <=> l \in DOMAIN enum_counters
                      /\ l \in DOMAIN enum_counters =>
                            enum_counters'[l] = enum_counters[l]
                /\ current_number' = n
                /\ enum_counters'[L] = n
                /\ paragraphs'[Len(paragraphs')].text =
                      Append(get_enum_number_format(L, n), " ")
       ELSE enum_counters' = enum_counters]_vars

\* "1.", "a.", a text line, then "2.": the nested counter is gone and the
\* text line did not restart the numbering
C28_Witness ==
    /\ Len(paragraphs) = 4
    /\ [i \in 1..4 |-> paragraphs[i].kind] = <<"enum", "enum", "text", "enum">>
    /\ [i \in 1..4 |-> paragraphs[i].level] = <<0, 1, 0, 0>>
    /\ paragraphs[2].text = <<"a", ".", " ">>
    /\ paragraphs[4].text = <<"2", ".", " ">>
    /\ current_number = 2
    /\ DOMAIN enum_counters = {0}

============================================================================
